---- MODULE Spec2Model ----
(***************************************************************************)
(* Model of watch_tokyo_amadeus.py: one run of main().                     *)
(*                                                                         *)
(* The run walks origins x destinations x departure dates, gates every     *)
(* query on the request budget, fetches offers with a retry loop for 429   *)
(* responses, folds the offers into one best offer and reports it.         *)
(*                                                                         *)
(* Dates are proleptic ordinals (date.toordinal()); ordinal 1 is a Monday, *)
(* so weekday(d) = (d + 6) % 7 with 0 = Monday.                            *)
(* Prices are whole currency units.                                        *)
(* A response body is a JSON object whose "data" member is a list of       *)
(* offers; an offer carries a price total that may be missing or           *)
(* unparseable, and zero, one or two well-formed itineraries. The model    *)
(* fixes the length of the list when the response arrives and draws each   *)
(* offer when the loop at line 157 reads it.                               *)
(***************************************************************************)
EXTENDS Integers, Sequences, FiniteSets, TLC

(* ---------------------------- bounds ----------------------------------- *)

\* largest configured MAX_REQUESTS_PER_RUN explored
MaxCap == 2

\* largest number of offers in one response
MaxOffers == 2

\* largest number of 429 answers the upstream gives during one run
MaxThrottles == 4

\* number of calendar days after DEPART_START the window end may reach
MaxWindow == 2

\* largest search space (number of enumerated queries) explored
MaxSpace == 4

\* largest number of offers fed to the selection step checked on its own
MaxFeed == 3

(* --------------------------- configuration ----------------------------- *)

\* ADULTS (line 15)
ADULTS == 1

\* MAX_PRICE_PER_PAX (line 17), in whole currency units
MAX_PRICE_PER_PAX == 1000

\* TRIP_LENGTH (line 18)
TRIP_LENGTH == 14

\* DEPART_START (line 22) as an ordinal: a Thursday
DEPART_START == 4

\* the configurations of DEPART_WEEKDAYS explored (line 26): Friday and
\* Saturday (the default), or Thursday alone
WeekdaySets == {{4, 5}, {3}}

\* the weekday sets explored with a window end: all of them with the widest
\* window, the default with the others
WeekdaysFor(end) ==
    IF end = DEPART_START + MaxWindow THEN WeekdaySets ELSE {{4, 5}}

\* mutant: range(5)
MaxAttemptsOneMore == 4 + 1

\* range(4) in search_flights (line 85)
MaxAttempts == 4

\* the configurations of ORIGINS and DEST explored (lines 11, 13)
OriginLists == {<<"AUS">>, <<"AUS", "IAH">>}
DestLists == {<<"TYO">>, <<"HND", "NRT">>}

\* the price totals the upstream may quote
Prices == {900, 1000, 1200}

VARIABLES
    ORIGINS,              \* line 11
    DEST_CODES,           \* line 13
    DEPART_END,           \* line 23, an ordinal
    DEPART_WEEKDAYS,      \* line 26
    MAX_REQUESTS_PER_RUN, \* line 32
    pc,                   \* where main() is
    auth,                 \* answers to the token request of get_token (line 35)
    requests_left,        \* line 126
    best,                 \* line 127: <<>> is None, else <<price, text>>
    oi, di, d,            \* the three loop cursors (lines 129-131)
    attempt,              \* loop variable of search_flights (line 85)
    responses,            \* statuses answered to the current search_flights call
    waits,                \* seconds slept by the current search_flights call
    offers_left,          \* offers of the current response the loop has not read
    offer,                \* loop variable of line 157
    dispatched,           \* the queries search_flights was invoked with, in order
    httpCalls,            \* number of requests.get calls of the run (line 86)
    throttles,            \* number of 429 answers of the run
    returned,             \* parsed price totals of all offers successful queries returned
    alerts,               \* number of send_alert invocations
    delivery,             \* what send_alert did with the message
    outcome,              \* what the run printed at lines 170-177
    itemsA, itemsB,       \* the selection step alone: one multiset of offers in two orders
    nA, nB,               \* how many offers of each order were fed
    foldA, foldB          \* the best offer of each order so far

vars == <<ORIGINS, DEST_CODES, DEPART_END, DEPART_WEEKDAYS,
          MAX_REQUESTS_PER_RUN, pc, auth,
          requests_left, best, oi, di, d, attempt, responses, waits, offers_left, offer,
          dispatched, httpCalls, throttles, returned, alerts,
          delivery, outcome, itemsA, itemsB, nA, nB, foldA, foldB>>

\* the variables of the selection step checked on its own
pure == <<itemsA, itemsB, nA, nB, foldA, foldB>>

config == <<ORIGINS, DEST_CODES, DEPART_END, DEPART_WEEKDAYS,
           MAX_REQUESTS_PER_RUN>>

(* ----------------------------- helpers --------------------------------- *)

\* best = None
NoBest == <<>>

\* date.weekday() of an ordinal: 0 = Monday ... 6 = Sunday
weekday(day) == (day + 6) % 7

\* 2 ** attempt (line 88)
RECURSIVE Pow2(_)
Pow2(n) == IF n = 0 THEN 1 ELSE 2 * Pow2(n - 1)

\* MAX_PRICE_PER_PAX * ADULTS (lines 80, 162)
Ceiling == MAX_PRICE_PER_PAX * ADULTS

\* the offers an upstream response may hold
Offers ==
    [priceKind : {"num"}, total : Prices, itins : {2}]
    \cup [priceKind : {"missing", "bad"}, total : {0}, itins : {2}]
    \cup [priceKind : {"num"}, total : {900}, itins : {0, 1}]
    \cup [priceKind : {"num"}, total : {1200}, itins : {0}]

\* the loop variable before the loop at line 157 binds it
NoOffer == [priceKind |-> "none", total |-> 0, itins |-> 0]

\* float(offer["price"]["total"]) does not raise (line 159)
PriceParses(o) == o.priceKind = "num"

\* summarize_offer does not raise: it reads itineraries[0] and itineraries[1]
SummaryRaises(o) == o.itins < 2

\* the text summarize_offer returns, reduced to origin, destination and total
summarize_offer(o, origin, dest_shown) == <<origin, dest_shown, o.total>>

\* total <= MAX_PRICE_PER_PAX * ADULTS (line 162)
UnderCeiling(total) == total <= Ceiling

\* mutant: the comparison of line 164 reversed
ImprovesReversed(total, cur) == cur = NoBest \/ total > cur[1]

\* mutant: line 164 with <= in place of <
ImprovesOrEqual(total, cur) == cur = NoBest \/ total <= cur[1]

\* (best is None) or (total < best[0]) (line 164)
Improves(total, cur) == cur = NoBest \/ total < cur[1]

\* mutant: daterange stops one day early (d < d2)
InWindowExclusive(day) == day < DEPART_END

\* while d <= d2 in daterange(DEPART_START, DEPART_END) (line 61)
InWindow(day) == day <= DEPART_END

\* mutant: the gate lets a query through with the budget at zero
BudgetExhaustedBelowZero(left) == left < 0

\* requests_left <= 0 (lines 134, 167)
BudgetExhausted(left) == left <= 0

(* ------------------------------- Init ---------------------------------- *)

\* the days of the window whose weekday is allowed
MatchingDays ==
    {day \in DEPART_START..DEPART_END : ((day + 6) % 7) \in DEPART_WEEKDAYS}

\* |origins| * |destinations| * |matching days|
EnumLength == Len(ORIGINS) * Len(DEST_CODES) * Cardinality(MatchingDays)

Init ==
    /\ ORIGINS \in OriginLists
    /\ DEST_CODES \in DestLists
    /\ DEPART_END \in (DEPART_START - 1)..(DEPART_START + MaxWindow)
    /\ DEPART_WEEKDAYS \in WeekdaysFor(DEPART_END)
    /\ MAX_REQUESTS_PER_RUN \in 0..MaxCap
    /\ EnumLength <= MaxSpace
    /\ pc = "auth"
    /\ auth = <<>>
    /\ requests_left = MAX_REQUESTS_PER_RUN
    /\ best = NoBest
    /\ oi = 1
    /\ di = 1
    /\ d = DEPART_START
    /\ attempt = 0
    /\ responses = <<>>
    /\ waits = <<>>
    /\ offers_left = 0
    /\ offer = NoOffer
    /\ dispatched = <<>>
    /\ httpCalls = 0
    /\ throttles = 0
    /\ returned = {}
    /\ alerts = 0
    /\ delivery = "none"
    /\ outcome = "none"
    /\ itemsA = <<>> /\ itemsB = <<>>
    /\ nA = 0 /\ nB = 0
    /\ foldA = NoBest /\ foldB = NoBest

(* ------------------------------ get_token ------------------------------ *)

\* get_token returns a token; main sets requests_left and best (lines 125-127)
GetTokenOk ==
    /\ pc = "auth"
    /\ auth' = Append(auth, "ok")
    /\ requests_left' = MAX_REQUESTS_PER_RUN
    /\ best' = NoBest
    /\ oi' = 1
    /\ pc' = "origin_loop"
    /\ UNCHANGED <<config, pure, di, d, attempt, responses, waits, offers_left, offer,
                   dispatched, httpCalls, throttles, returned,
                   alerts, delivery, outcome>>

\* mutant: the failed token request is ignored and main goes on
GetTokenFailsIgnored ==
    /\ pc = "auth"
    /\ auth' = Append(auth, "error")
    /\ pc' = "origin_loop"
    /\ UNCHANGED <<config, pure, requests_left, best, oi, di, d, attempt,
                   responses, waits, offers_left, offer, dispatched, httpCalls,
                   throttles, returned, alerts, delivery, outcome>>

\* the token request is answered with a non-success status: get_token prints
\* and raises (lines 44-46); main() does not catch it and ends at line 125
GetTokenFails ==
    /\ pc = "auth"
    /\ auth' = Append(auth, "error")
    /\ pc' = "auth_failed"
    /\ UNCHANGED <<config, pure, requests_left, best, oi, di, d, attempt,
                   responses, waits, offers_left, offer, dispatched, httpCalls,
                   throttles, returned, alerts, delivery, outcome>>

(* ----------------------------- the walk -------------------------------- *)

\* for origin in ORIGINS (line 129): next origin, or the loop is over
OriginLoop ==
    /\ pc = "origin_loop"
    /\ IF oi <= Len(ORIGINS)
          THEN pc' = "dest_loop" /\ di' = 1
          ELSE pc' = "report" /\ di' = di
    /\ UNCHANGED <<config, pure, auth, requests_left, best, oi, d, attempt,
                   responses, waits, offers_left, offer, dispatched, httpCalls,
                   throttles, returned, alerts, delivery, outcome>>

\* for dest_code in DEST_CODES (line 130): next destination, or back to line 129
DestLoop ==
    /\ pc = "dest_loop"
    /\ IF di <= Len(DEST_CODES)
          THEN pc' = "date_loop" /\ d' = DEPART_START /\ oi' = oi
          ELSE pc' = "origin_loop" /\ oi' = oi + 1 /\ d' = d
    /\ UNCHANGED <<config, pure, auth, requests_left, best, di, attempt,
                   responses, waits, offers_left, offer, dispatched, httpCalls,
                   throttles, returned, alerts, delivery, outcome>>

\* daterange is exhausted (line 61): fall through to line 167
DatesDone ==
    /\ pc = "date_loop"
    /\ ~InWindow(d)
    /\ pc' = "after_dates"
    /\ UNCHANGED <<config, pure, auth, requests_left, best, oi, di, d, attempt,
                   responses, waits, offers_left, offer, dispatched, httpCalls,
                   throttles, returned, alerts, delivery, outcome>>

\* the weekday filter (lines 132-133)
SkipDay ==
    /\ pc = "date_loop"
    /\ InWindow(d)
    /\ weekday(d) \notin DEPART_WEEKDAYS
    /\ d' = d + 1
    /\ UNCHANGED <<config, pure, auth, pc, requests_left, best, oi, di, attempt,
                   responses, waits, offers_left, offer, dispatched, httpCalls,
                   throttles, returned, alerts, delivery, outcome>>

\* the budget gate breaks the date loop (lines 134-135)
BudgetBreak ==
    /\ pc = "date_loop"
    /\ InWindow(d)
    /\ weekday(d) \in DEPART_WEEKDAYS
    /\ BudgetExhausted(requests_left)
    /\ pc' = "after_dates"
    /\ UNCHANGED <<config, pure, auth, requests_left, best, oi, di, d, attempt,
                   responses, waits, offers_left, offer, dispatched, httpCalls,
                   throttles, returned, alerts, delivery, outcome>>

\* search_flights is invoked for (origin, dest_code, d, rdate) (lines 136-142)
Dispatch ==
    /\ pc = "date_loop"
    /\ InWindow(d)
    /\ weekday(d) \in DEPART_WEEKDAYS
    /\ ~BudgetExhausted(requests_left)
    /\ dispatched' = Append(dispatched,
                            <<ORIGINS[oi], DEST_CODES[di], d, d + TRIP_LENGTH>>)
    /\ attempt' = 0
    /\ responses' = <<>>
    /\ waits' = <<>>
    /\ pc' = "fetch"
    /\ UNCHANGED <<config, pure, auth, requests_left, best, oi, di, d, offers_left, offer,
                   httpCalls, throttles, returned, alerts,
                   delivery, outcome>>

\* if requests_left <= 0: break (lines 167-168), else the next destination
AfterDates ==
    /\ pc = "after_dates"
    /\ IF BudgetExhausted(requests_left)
          THEN pc' = "origin_loop" /\ oi' = oi + 1 /\ di' = di
          ELSE pc' = "dest_loop" /\ di' = di + 1 /\ oi' = oi
    /\ UNCHANGED <<config, pure, auth, requests_left, best, d, attempt,
                   responses, waits, offers_left, offer, dispatched, httpCalls,
                   throttles, returned, alerts, delivery, outcome>>

(* --------------------------- search_flights ---------------------------- *)

\* mutant: the exception of search_flights is not caught and ends main()
OnRequestFailedUncaught ==
    /\ pc' = "crashed"
    /\ UNCHANGED <<d, requests_left, best, oi, di, offers_left, offer, returned>>

\* mutant: the failed query is tried again instead of the next date
OnRequestFailedSameDate ==
    /\ pc' = "date_loop"
    /\ UNCHANGED <<d, requests_left, best, oi, di, offers_left, offer, returned>>

\* except Exception: print, continue (lines 143-145): the budget, the best
\* offer and the cursors of the outer loops are left alone
OnRequestFailed ==
    /\ pc' = "date_loop"
    /\ d' = d + 1
    /\ UNCHANGED <<requests_left, best, oi, di, offers_left, offer, returned>>

\* mutant: a throttled attempt is charged to the budget
HttpThrottledCharged ==
    /\ pc = "fetch"
    /\ attempt < MaxAttempts
    /\ throttles < MaxThrottles
    /\ httpCalls' = httpCalls + 1
    /\ throttles' = throttles + 1
    /\ responses' = Append(responses, "throttled")
    /\ waits' = Append(waits, Pow2(attempt))
    /\ attempt' = attempt + 1
    /\ requests_left' = requests_left - 1
    /\ UNCHANGED <<config, pure, auth, pc, best, oi, di, d, offers_left,
                   offer, dispatched, returned, alerts, delivery,
                   outcome>>

\* the upstream answers 429: sleep 2 ** attempt, next attempt (lines 87-91)
HttpThrottled ==
    /\ pc = "fetch"
    /\ attempt < MaxAttempts
    /\ throttles < MaxThrottles
    /\ httpCalls' = httpCalls + 1
    /\ throttles' = throttles + 1
    /\ responses' = Append(responses, "throttled")
    /\ waits' = Append(waits, Pow2(attempt))
    /\ attempt' = attempt + 1
    /\ UNCHANGED <<config, pure, auth, pc, requests_left, best, oi, di, d, offers_left,
                   offer, dispatched, returned, alerts, delivery,
                   outcome>>

\* the for loop ran out: r.raise_for_status() raises for the last 429 (line 100)
RetriesExhausted ==
    /\ pc = "fetch"
    /\ attempt >= MaxAttempts
    /\ OnRequestFailed
    /\ UNCHANGED <<config, pure, auth, attempt, responses, waits, dispatched,
                   httpCalls, throttles, alerts, delivery, outcome>>

\* mutant: an error status is backed off and retried like a 429
HttpErrorRetried ==
    /\ pc = "fetch"
    /\ attempt < MaxAttempts
    /\ httpCalls' = httpCalls + 1
    /\ responses' = Append(responses, "error")
    /\ waits' = Append(waits, Pow2(attempt))
    /\ attempt' = attempt + 1
    /\ UNCHANGED <<config, pure, auth, pc, requests_left, best, oi, di, d,
                   offers_left, offer, dispatched, throttles, returned, alerts,
                   delivery, outcome>>

\* a non-success status other than 429: raise_for_status raises (lines 93-95)
HttpError ==
    /\ pc = "fetch"
    /\ attempt < MaxAttempts
    /\ httpCalls' = httpCalls + 1
    /\ responses' = Append(responses, "error")
    /\ OnRequestFailed
    /\ UNCHANGED <<config, pure, auth, attempt, waits, dispatched, throttles,
                   alerts, delivery, outcome>>

\* requests.get raises after timeout=40 (line 86)
HttpTimeout ==
    /\ pc = "fetch"
    /\ attempt < MaxAttempts
    /\ httpCalls' = httpCalls + 1
    /\ responses' = Append(responses, "timeout")
    /\ OnRequestFailed
    /\ UNCHANGED <<config, pure, auth, attempt, waits, dispatched, throttles,
                   alerts, delivery, outcome>>

\* a success: search_flights returns r.json() (line 97); main decrements the
\* budget and reads the offers (lines 147-148)
HttpOk ==
    /\ pc = "fetch"
    /\ attempt < MaxAttempts
    /\ offers_left' \in 0..MaxOffers
    /\ httpCalls' = httpCalls + 1
    /\ responses' = Append(responses, "ok")
    /\ requests_left' = requests_left - 1
    /\ pc' = "offers"
    /\ UNCHANGED <<config, pure, auth, best, oi, di, d, attempt, waits, offer, dispatched,
                   throttles, returned, alerts, delivery, outcome>>

(* --------------------------- the offer fold ---------------------------- *)

\* mutant: the comparison of line 164 dropped, the last qualifying offer wins
SelectLast(cur, total, summary) == <<total, summary>>

\* lines 164-165: the best offer after a qualifying offer was summarised
Select(cur, total, summary) ==
    IF Improves(total, cur) THEN <<total, summary>> ELSE cur

\* for offer in offers (line 157) binds the next offer o of the response
ReadOffer(o) ==
    /\ pc = "offers"
    /\ offers_left > 0
    /\ offers_left' = offers_left - 1
    /\ offer' = o
    /\ returned' = IF PriceParses(o) THEN returned \cup {o.total} ELSE returned

\* float(...) raises: continue (lines 158-161)
OfferUnparsed ==
    /\ \E o \in Offers :
          /\ ReadOffer(o)
          /\ ~PriceParses(o)
    /\ UNCHANGED <<config, pure, auth, pc, requests_left, best, oi, di, d, attempt,
                   responses, waits, dispatched, httpCalls, throttles, alerts,
                   delivery, outcome>>

\* the total is above the ceiling (line 162 is false)
OfferOverCeiling ==
    /\ \E o \in Offers :
          /\ ReadOffer(o)
          /\ PriceParses(o)
          /\ ~UnderCeiling(o.total)
    /\ UNCHANGED <<config, pure, auth, pc, requests_left, best, oi, di, d, attempt,
                   responses, waits, dispatched, httpCalls, throttles, alerts,
                   delivery, outcome>>

\* summarize_offer raises IndexError (lines 111-112); nothing in main catches it
OfferSummaryRaises ==
    /\ \E o \in Offers :
          /\ ReadOffer(o)
          /\ PriceParses(o)
          /\ UnderCeiling(o.total)
          /\ SummaryRaises(o)
    /\ pc' = "crashed"
    /\ UNCHANGED <<config, pure, auth, requests_left, best, oi, di, d, attempt, responses,
                   waits, dispatched, httpCalls, throttles, alerts, delivery,
                   outcome>>

\* a qualifying offer is summarised and compared with the best (lines 162-165)
OfferConsidered ==
    /\ \E o \in Offers :
          /\ ReadOffer(o)
          /\ PriceParses(o)
          /\ UnderCeiling(o.total)
          /\ ~SummaryRaises(o)
          /\ best' = Select(best, o.total,
                            summarize_offer(o, ORIGINS[oi], DEST_CODES[di]))
    /\ UNCHANGED <<config, pure, auth, pc, requests_left, oi, di, d, attempt, responses,
                   waits, dispatched, httpCalls, throttles, alerts, delivery,
                   outcome>>

\* the offers of the response are done: the next date (line 131). The loop
\* variable is not read again before the loop binds it
OffersDone ==
    /\ pc = "offers"
    /\ offers_left = 0
    /\ d' = d + 1
    /\ offer' = NoOffer
    /\ pc' = "date_loop"
    /\ UNCHANGED <<config, pure, auth, requests_left, best, oi, di, attempt, responses,
                   waits, offers_left, dispatched, httpCalls, throttles,
                   returned, alerts, delivery, outcome>>

(* ------------------------------ the report ----------------------------- *)

\* mutant: the alert is sent whether or not a best offer exists
HasBestAlways(cur) == TRUE

\* if best: (line 170)
HasBest(cur) == cur # NoBest

\* what send_alert may do with the text (lines 50-57); none of it raises
Deliveries == {"no_webhook", "posted", "post_raised"}

\* mutant: send_alert without its try: a failing post ends main()
ReportAlertPostUncaught ==
    /\ pc = "report"
    /\ HasBest(best)
    /\ alerts' = alerts + 1
    /\ delivery' \in Deliveries
    /\ outcome' = IF delivery' = "post_raised" THEN outcome ELSE "alert"
    /\ pc' = IF delivery' = "post_raised" THEN "crashed" ELSE "done"
    /\ UNCHANGED <<config, pure, auth, requests_left, best, oi, di, d, attempt,
                   responses, waits, offers_left, offer, dispatched, httpCalls,
                   throttles, returned>>

\* send_alert(best[1]); print("ALERT:", ...) (lines 170-172)
ReportAlert ==
    /\ pc = "report"
    /\ HasBest(best)
    /\ alerts' = alerts + 1
    /\ delivery' \in Deliveries
    /\ outcome' = "alert"
    /\ pc' = "done"
    /\ UNCHANGED <<config, pure, auth, requests_left, best, oi, di, d, attempt,
                   responses, waits, offers_left, offer, dispatched, httpCalls,
                   throttles, returned>>

\* print("No deals under threshold this run.") (lines 173-177)
ReportNoDeals ==
    /\ pc = "report"
    /\ ~HasBest(best)
    /\ outcome' = "nodeals"
    /\ pc' = "done"
    /\ UNCHANGED <<config, pure, auth, requests_left, best, oi, di, d, attempt,
                   responses, waits, offers_left, offer, dispatched, httpCalls,
                   throttles, returned, alerts, delivery>>

(* --------------------------- specification ----------------------------- *)

Next ==
    \/ GetTokenOk
    \/ GetTokenFails
    \/ OriginLoop
    \/ DestLoop
    \/ DatesDone
    \/ SkipDay
    \/ BudgetBreak
    \/ Dispatch
    \/ AfterDates
    \/ HttpThrottled
    \/ RetriesExhausted
    \/ HttpError
    \/ HttpTimeout
    \/ HttpOk
    \/ OfferUnparsed
    \/ OfferOverCeiling
    \/ OfferSummaryRaises
    \/ OfferConsidered
    \/ OffersDone
    \/ ReportAlert
    \/ ReportNoDeals

Spec == Init /\ [][Next]_vars

(* ------------------- the selection step on its own --------------------- *)

\* the exception summarize_offer raises, in place of a best offer
Raised == <<"raised">>

\* one pass of the body of the loop at line 157 (lines 158-165) over offer o
\* of the query (origin, dest_shown), from best offer cur
Consider(cur, o, origin, dest_shown) ==
    IF ~PriceParses(o) THEN cur
    ELSE IF ~UnderCeiling(o.total) THEN cur
    ELSE IF SummaryRaises(o) THEN Raised
    ELSE Select(cur, o.total, summarize_offer(o, origin, dest_shown))

\* the offers fed, each with the origin of the query that returned it
FeedItems ==
    [o : {[priceKind |-> "num", total |-> 900, itins |-> 2]},
     origin : {"AUS", "IAH"}]
    \cup [o : {[priceKind |-> "num", total |-> 1000, itins |-> 2],
               [priceKind |-> "num", total |-> 1200, itins |-> 2],
               [priceKind |-> "bad", total |-> 0, itins |-> 2],
               [priceKind |-> "num", total |-> 900, itins |-> 1]},
          origin : {"AUS"}]

\* a feed is over when all its offers were read or one raised
FeedOver(items, n, f) == n = Len(items) \/ f = Raised

\* a sequence of offers and a reordering of it; main() stands still
FoldInit ==
    /\ \E n \in 0..MaxFeed :
          /\ itemsA \in [1..n -> FeedItems]
          /\ \E perm \in Permutations(1..n) :
                itemsB = [i \in 1..n |-> itemsA[perm[i]]]
    /\ nA = 0 /\ nB = 0
    /\ foldA = NoBest /\ foldB = NoBest
    /\ ORIGINS = <<"AUS", "IAH">>
    /\ DEST_CODES = <<"TYO">>
    /\ DEPART_END = DEPART_START - 1
    /\ DEPART_WEEKDAYS = {4, 5}
    /\ MAX_REQUESTS_PER_RUN = 0
    /\ pc = "fold"
    /\ auth = <<>>
    /\ requests_left = 0
    /\ best = NoBest
    /\ oi = 1 /\ di = 1 /\ d = DEPART_START
    /\ attempt = 0
    /\ responses = <<>> /\ waits = <<>>
    /\ offers_left = 0 /\ offer = NoOffer
    /\ dispatched = <<>>
    /\ httpCalls = 0 /\ throttles = 0
    /\ returned = {}
    /\ alerts = 0 /\ delivery = "none" /\ outcome = "none"

\* the variables of main(), which the selection step on its own leaves alone
run == <<pc, auth, requests_left, best, oi, di, d, attempt, responses, waits,
         offers_left, offer, dispatched, httpCalls, throttles, returned,
         alerts, delivery, outcome>>

\* the next offer of the first order is fed
FoldStepA ==
    /\ pc = "fold"
    /\ ~FeedOver(itemsA, nA, foldA)
    /\ nA' = nA + 1
    /\ foldA' = Consider(foldA, itemsA[nA + 1].o, itemsA[nA + 1].origin, "TYO")
    /\ UNCHANGED <<config, run, itemsA, itemsB, nB, foldB>>

\* the first order is over: the next offer of the second order is fed
FoldStepB ==
    /\ pc = "fold"
    /\ FeedOver(itemsA, nA, foldA)
    /\ ~FeedOver(itemsB, nB, foldB)
    /\ nB' = nB + 1
    /\ foldB' = Consider(foldB, itemsB[nB + 1].o, itemsB[nB + 1].origin, "TYO")
    /\ UNCHANGED <<config, run, itemsA, itemsB, nA, foldA>>

FoldNext == FoldStepA \/ FoldStepB

FoldSpec == FoldInit /\ [][FoldNext]_vars

\* the positions of a feed whose offer has a price at or below the ceiling
QualifyingAt(items) ==
    {i \in 1..Len(items) :
        /\ items[i].o.priceKind = "num"
        /\ items[i].o.total <= MAX_PRICE_PER_PAX * ADULTS}

\* the first position of a feed that holds its least qualifying price
FirstLeastAt(items) ==
    CHOOSE i \in QualifyingAt(items) :
        \A j \in QualifyingAt(items) :
            \/ items[i].o.total < items[j].o.total
            \/ items[i].o.total = items[j].o.total /\ i <= j

(* ------------------------ derived observations ------------------------ *)

\* the last answer the current or last search_flights call received
LastResponse == IF responses = <<>> THEN "none" ELSE responses[Len(responses)]

\* the last search_flights call is over and raised
LastCallFailed == pc # "fetch" /\ LastResponse \notin {"none", "ok"}

\* the totals, among those successful queries returned, at or below the ceiling
Qualifying == {p \in returned : p <= MAX_PRICE_PER_PAX * ADULTS}

\* the least element of a non-empty set of totals
Least(S) == CHOOSE p \in S : \A q \in S : p <= q

\* the matching days in ascending order
SortedDays ==
    CHOOSE s \in [1..Cardinality(MatchingDays) -> MatchingDays] :
        \A i, j \in 1..Cardinality(MatchingDays) : i < j => s[i] < s[j]

\* the search space in its declared order: origin-major, then destination,
\* then ascending matching dates, each with its return date
Enumeration ==
    LET nd == Len(DEST_CODES)
        nm == Cardinality(MatchingDays)
        days == SortedDays
    IN  [i \in 1..EnumLength |->
            <<ORIGINS[((i - 1) \div (nd * nm)) + 1],
              DEST_CODES[(((i - 1) \div nm) % nd) + 1],
              days[((i - 1) % nm) + 1],
              days[((i - 1) % nm) + 1] + TRIP_LENGTH>>]

\* the loop is at line 134 with a matching date: the budget gate decides next
AtGate == pc = "date_loop" /\ d <= DEPART_END /\ weekday(d) \in DEPART_WEEKDAYS

(* ------------------------------- claims -------------------------------- *)

\* C1: the number of queries dispatched (invocations of search_flights) never
\* exceeds the initial cap MAX_REQUESTS_PER_RUN, whatever the upstream answers.
C1_DispatchedWithinCap == Len(dispatched) <= MAX_REQUESTS_PER_RUN

\* C2: outside a call in progress, requests_left equals the initial cap minus
\* the number of queries dispatched so far, failed queries included.
C2_BudgetCountsEveryDispatch ==
    pc # "fetch" => requests_left = MAX_REQUESTS_PER_RUN - Len(dispatched)

\* C3: the number of search HTTP requests of the run (requests.get calls,
\* re-attempts after a 429 included) never exceeds MAX_REQUESTS_PER_RUN.
C3_HttpCallsWithinCap == httpCalls <= MAX_REQUESTS_PER_RUN

\* C4: requests_left is >= 0 in every reachable state, for every cap >= 0 and
\* every mix of successful, throttled and failed queries.
C4_BudgetNeverNegative == requests_left >= 0

\* C4 witness: a run with cap > 0 that saw a throttled, a failed and a
\* successful query stands at the gate with the budget at zero.
C4_Witness ==
    /\ AtGate
    /\ requests_left = 0
    /\ MAX_REQUESTS_PER_RUN > 0
    /\ throttles > 0
    /\ Len(dispatched) > MAX_REQUESTS_PER_RUN

\* C5: an offer without a parseable price or with fewer than two itineraries
\* is skipped; reading it never ends the run.
C5_InvalidOfferNeverFatal ==
    (offer # NoOffer /\ (offer.priceKind # "num" \/ offer.itins < 2))
        => pc # "crashed"

\* C6: once the token is acquired the run never stops before it has reported
\* one of the two outcomes.
C6_RunReachesReport ==
    \/ pc \in {"auth", "auth_failed"}
    \/ pc = "done" /\ outcome \in {"alert", "nodeals"}
    \/ ENABLED Next

\* C7: a step that ends search_flights with an exception leaves the best
\* offer and the outer cursors alone, moves the walk to the next date, does
\* not end the run and leaves the budget gate open for the next query.
C7_FailedQueryIsSkipped ==
    [][(pc = "fetch" /\ pc' \notin {"fetch", "offers"})
          => /\ pc' = "date_loop"
             /\ d' = d + 1
             /\ oi' = oi /\ di' = di
             /\ best' = best
             /\ requests_left' > 0]_vars

\* C7 witness: a query has just failed while a best offer is held, and the
\* walk stands at the gate of the next query with budget left.
C7_Witness ==
    /\ AtGate
    /\ LastCallFailed
    /\ best # NoBest
    /\ requests_left > 0

\* C8: at the end of a run the best offer is the least total among the
\* returned offers at or below the ceiling, and absent exactly when no
\* returned offer is at or below the ceiling.
C8_BestIsLeastQualifying ==
    pc = "done" =>
        IF Qualifying = {}
           THEN best = NoBest
           ELSE /\ best # NoBest
                /\ best[1] = Least(Qualifying)
                /\ best[2][3] = best[1]

\* C8 witness: two queries returned offers priced 1200, 900 and 1000 with the
\* ceiling at 1000, and the run ended with best price 900.
C8_Witness ==
    /\ pc = "done"
    /\ Len(dispatched) = 2
    /\ returned = {900, 1000, 1200}
    /\ best # NoBest
    /\ best[1] = 900

\* C9: one search_flights call makes at most 4 HTTP attempts; every answer
\* but the last is a 429, so a success or an error ends the call at once; after
\* 3 throttled attempts a 4th is made and may succeed; after 4 throttled
\* attempts no attempt is left and the call can only raise.
C9_AtMostFourAttempts ==
    /\ Len(responses) <= 4
    /\ \A i \in 1..(Len(responses) - 1) : responses[i] = "throttled"
    /\ pc = "fetch" => LastResponse \in {"none", "throttled"}
    /\ (pc = "fetch" /\ Len(responses) = 3) => ENABLED HttpOk
    /\ (pc = "fetch" /\ Len(responses) = 4)
          => /\ ~ENABLED HttpOk
             /\ ~ENABLED HttpThrottled
             /\ ENABLED RetriesExhausted

\* C9 witness: a call throttled on its first 3 attempts returned the success
\* of the 4th, and main reads its offers.
C9_Witness ==
    /\ pc = "offers"
    /\ responses = <<"throttled", "throttled", "throttled", "ok">>

\* C10: send_alert is invoked at most once per run, only by the report step
\* and only with a best offer; a run whose returned offers all exceed the
\* ceiling, or that fetched none, ends with no alert and reports "no deals".
C10_AlertOnlyWithBest ==
    /\ alerts <= 1
    /\ alerts = 1 => (pc = "done" /\ best # NoBest /\ outcome = "alert")
    /\ (pc = "done" /\ Qualifying = {}) => (alerts = 0 /\ outcome = "nodeals")

\* C10 witness: a run fetched offers, every one of them above the ceiling,
\* and ended without an alert.
C10_Witness ==
    /\ pc = "done"
    /\ returned = {1200}
    /\ alerts = 0
    /\ outcome = "nodeals"

\* C11: when the token request is answered with a non-success status the run
\* is over at once: the request was made once, no query was dispatched, no
\* search request was sent, the budget is the configured cap, nothing went to
\* the notification sink, and no step follows.
C11_AuthFailureAborts ==
    /\ Len(auth) <= 1
    /\ auth = <<"error">> =>
          /\ pc = "auth_failed"
          /\ dispatched = <<>>
          /\ httpCalls = 0
          /\ requests_left = MAX_REQUESTS_PER_RUN
          /\ alerts = 0
          /\ outcome = "none"
          /\ ~ENABLED Next

\* C11 witness: a run with a positive cap and a non-empty search space whose
\* token request failed.
C11_Witness ==
    /\ auth = <<"error">>
    /\ MAX_REQUESTS_PER_RUN > 0
    /\ DEPART_END > DEPART_START

\* C12: when the cap is at least the size of the search space, a walk that
\* reached its end dispatched |origins| * |destinations| * |matching days|
\* queries; every dispatched query returns TRIP_LENGTH days after it departs.
C12_WalkDispatchesWholeSpace ==
    /\ \A i \in 1..Len(dispatched) :
          dispatched[i][4] = dispatched[i][3] + TRIP_LENGTH
    /\ (pc \in {"report", "done"} /\ MAX_REQUESTS_PER_RUN >= EnumLength)
          => Len(dispatched) = EnumLength

\* C12 witness: two origins, one destination and Thursday as the one matching
\* day of a three-day window, a cap of at least 2, and the walk ended with
\* both queries dispatched.
C12_Witness ==
    /\ pc = "done"
    /\ Len(ORIGINS) = 2
    /\ DEPART_WEEKDAYS = {3}
    /\ EnumLength = 2
    /\ MAX_REQUESTS_PER_RUN >= 2
    /\ Len(dispatched) = 2

\* C12 witness for the empty window: start > end, nothing is dispatched.
C12_WitnessEmptyWindow ==
    /\ pc = "done"
    /\ DEPART_END < DEPART_START
    /\ dispatched = <<>>

\* C20: the queries dispatched so far are a prefix of the enumeration order,
\* so none is skipped before a later one and none is dispatched twice, and
\* their number never exceeds the length of the enumeration.
C20_DispatchedIsPrefix ==
    /\ Len(dispatched) <= EnumLength
    /\ LET enum == Enumeration
       IN  \A i \in 1..Len(dispatched) : dispatched[i] = enum[i]
    /\ \A i, j \in 1..Len(dispatched) : i < j => dispatched[i] # dispatched[j]

\* C20 witness: every query of a search space of 4 failed, the budget is
\* untouched, and each query was dispatched once.
C20_Witness ==
    /\ pc = "done"
    /\ MAX_REQUESTS_PER_RUN = 1
    /\ requests_left = 1
    /\ EnumLength = 4
    /\ Len(dispatched) = 4

\* C14: neither the token request nor a throttled attempt touches the budget:
\* get_token leaves requests_left at the configured cap, dispatching and
\* every re-attempt leave it alone, and the success that ends the call takes
\* exactly 1 from it, however many attempts were throttled before.
C14_RetriesAndAuthAreFree ==
    [][/\ pc = "auth" => requests_left' = MAX_REQUESTS_PER_RUN
       /\ (pc # "fetch" /\ pc' = "fetch") => requests_left' = requests_left
       /\ (pc = "fetch" /\ pc' = "fetch") => requests_left' = requests_left
       /\ (pc = "fetch" /\ pc' = "offers")
             => requests_left' = requests_left - 1]_vars

\* C14 witness: the first query was throttled twice and then succeeded, and
\* the budget is the cap less 1.
C14_Witness ==
    /\ pc = "offers"
    /\ Len(dispatched) = 1
    /\ responses = <<"throttled", "throttled", "ok">>
    /\ requests_left = MAX_REQUESTS_PER_RUN - 1

\* C15: the report step always ends the run normally and leaves the best
\* offer alone, whatever send_alert did with the message.
C15_DeliveryFailureIsNotFatal ==
    [][pc = "report"
          => /\ pc' = "done"
             /\ best' = best
             /\ outcome' = IF best = NoBest THEN "nodeals" ELSE "alert"]_vars

\* C15 witness: the webhook post raised and the run ended with its best offer.
C15_Witness ==
    /\ pc = "done"
    /\ delivery = "post_raised"
    /\ best # NoBest
    /\ best[1] = Least(Qualifying)

\* C16: once requests_left is zero the run cannot dispatch a query and can
\* always take its next step until it has reported.
C16_ZeroBudgetStopsAndReports ==
    (requests_left = 0 /\ pc \notin {"auth", "auth_failed", "done"})
        => (~ENABLED Dispatch /\ ENABLED Next)

\* C17: the waits of one search_flights call are a prefix of 1, 2, 4 seconds,
\* so every wait is followed by another attempt.
C17_WaitsArePrefixOf124 == waits \in {<<>>, <<1>>, <<1, 2>>, <<1, 2, 4>>}

\* C18: an attempt answered with a non-success status other than 429 ends the
\* call at once: it is one request, no wait is added, the call is over and
\* the walk moves to the next date.
C18_ErrorStatusFailsAtOnce ==
    [][(responses' # responses /\ LastResponse' = "error")
          => /\ pc = "fetch"
             /\ pc' = "date_loop"
             /\ responses' = Append(responses, "error")
             /\ httpCalls' = httpCalls + 1
             /\ waits' = waits
             /\ attempt' = attempt]_vars

\* C18 witness: a call was throttled twice, then answered with an error
\* status, and is over after waits of 1 and 2 seconds.
C18_Witness ==
    /\ pc = "date_loop"
    /\ responses = <<"throttled", "throttled", "error">>
    /\ waits = <<1, 2>>

\* C19: the best offer changes only to an offer with a strictly lower price
\* (or from none), is never dropped, and its price is at most the ceiling.
C19_BestOnlyImproves ==
    /\ [][best' # best
             => /\ best' # NoBest
                /\ best = NoBest \/ best'[1] < best[1]]_vars
    /\ [](best # NoBest => best[1] <= MAX_PRICE_PER_PAX * ADULTS)

\* C19 witness: an offer of 900 from a later query was read while an offer of
\* 900 from an earlier query was held, and the held one stayed.
C19_Witness ==
    /\ pc = "offers"
    /\ offer = [priceKind |-> "num", total |-> 900, itins |-> 2]
    /\ best # NoBest
    /\ best[1] = 900
    /\ <<best[2][1], best[2][2]>> # <<ORIGINS[oi], DEST_CODES[di]>>

\* C13: when the same offers were fed to the selection step in two orders,
\* either both feeds raised or both ended with the same best price, the least
\* qualifying price (or both with none), and each kept the first offer it
\* was fed among those of that price.
C13_FoldIsOrderIndependent ==
    (pc = "fold" /\ FeedOver(itemsA, nA, foldA) /\ FeedOver(itemsB, nB, foldB))
        => /\ (foldA = Raised) <=> (foldB = Raised)
           /\ foldA # Raised =>
                 IF QualifyingAt(itemsA) = {}
                    THEN foldA = NoBest /\ foldB = NoBest
                    ELSE LET a == itemsA[FirstLeastAt(itemsA)]
                             b == itemsB[FirstLeastAt(itemsB)]
                         IN  /\ foldA # NoBest /\ foldB # NoBest
                             /\ foldA[1] = a.o.total
                             /\ foldB[1] = foldA[1]
                             /\ foldA[2] = <<a.origin, "TYO", a.o.total>>
                             /\ foldB[2] = <<b.origin, "TYO", b.o.total>>

\* C13 witness: three offers, two of them at the least price 900 from
\* different queries, were fed in two orders; both feeds ended at 900 and each
\* kept the 900 it was fed first.
C13_Witness ==
    /\ pc = "fold"
    /\ nA = 3 /\ nB = 3
    /\ foldA # Raised /\ foldB # Raised
    /\ foldA # NoBest /\ foldB # NoBest
    /\ foldA[1] = 900 /\ foldB[1] = 900
    /\ foldA[2] # foldB[2]
    /\ itemsA[1].o.total = 1000

====
